---- MODULE Spec2Model ----
(***************************************************************************)
(* A model of src/merge_tools.rs: resolution of the external merge tool /  *)
(* diff editor from the settings, interpolation of the merge arguments,    *)
(* and the two workflows run_mergetool and edit_diff.                      *)
(*                                                                         *)
(* Byte strings and file contents are sequences of tokens, strings that    *)
(* the code inspects character-wise (the merge arguments) are sequences of *)
(* tokens as well, Option<T> is a sequence of length 0 or 1 and            *)
(* Result<T, E> is a record with the field ok.                             *)
(***************************************************************************)
EXTENDS Naturals, Integers, Sequences, FiniteSets, TLC

VARIABLES
    settings,       \* the UserSettings handed to the operation
    tcall,          \* which tool-resolution function was called, with its inputs
    resolved,       \* what that function returned
    hints,          \* the number of lines written to ui.hint()
    merge_args,     \* input of interpolate_mergetool_filename_patterns
    paths,          \* role -> path of the role file
    args,           \* output of interpolate_mergetool_filename_patterns
    op,             \* the operation running: run_mergetool or edit_diff
    pc,             \* its position
    result,         \* None while it runs, then Some(Ok(tree id)) or Some(Err(e))
    tree,           \* run_mergetool: the input tree, path -> value
    conflict,       \* the conflict object the store holds for the conflict id
    content,        \* the extracted hunk (removes, adds), popped from later
    editor,         \* the resolved MergeTool
    initial_output_content,
    files,          \* role -> the bytes to write
    temp_dir,       \* "none", "exists" or "removed"
    disk,           \* role -> the role file under temp_dir, if it exists
    launches,       \* how many times the external process was started
    cmd,            \* the command that was built: program and arguments
    exit_status,    \* the exit status of the external process
    at_exit,        \* edit_diff: left_dir and right_dir as the process left them
    output_file_contents,   \* Some(bytes) once the output file was read back
    new_tree_value,
    store_files,    \* file contents written to the store by this run
    store_conflicts,\* conflict ids written to the store by this run
    store_trees,    \* trees written to the store by this run
    left_tree,      \* edit_diff: the two input trees, path -> Option<content>
    right_tree,
    instructions,   \* the instructions string
    left_dir,       \* the checkout of left_tree under temp_dir
    right_dir,      \* the checkout of right_tree under temp_dir
    add_instructions,
    right_tree_state    \* the TreeState of right_dir: its tree, snapshots taken

toolvars == <<tcall, resolved>>
argvars == <<merge_args, paths, args>>
inputvars == <<op, settings, tree, conflict, left_tree, right_tree, instructions>>
diffvars == <<add_instructions, right_tree_state>>
mergevars == <<content, editor, initial_output_content, files,
               output_file_contents, new_tree_value>>
procvars == <<launches, cmd, exit_status, at_exit>>
storevars == <<store_files, store_conflicts, store_trees>>
vars == <<settings, tcall, resolved, hints, merge_args, paths, args,
          op, pc, result, tree, conflict, content, editor,
          initial_output_content, files, temp_dir, disk, launches, cmd,
          exit_status, at_exit, output_file_contents, new_tree_value,
          store_files, store_conflicts, store_trees,
          left_tree, right_tree, instructions, left_dir, right_dir,
          add_instructions, right_tree_state>>

(***************************************************************************)
(* Bounds of the model.                                                    *)
(***************************************************************************)
MaxArgs == 2        \* longest merge-args list drawn for the interpolation
MaxRemoves == 2     \* most removes of a conflict hunk
MaxAdds == 3        \* most adds of a conflict hunk
MaxEntries == 1     \* most entries of the merge-tools table

(***************************************************************************)
(* Option and Result.                                                      *)
(***************************************************************************)
None == <<>>
Some(x) == <<x>>
unwrap_or(o, d) == IF Len(o) = 0 THEN d ELSE o[1]
Ok(v) == [ok |-> TRUE, val |-> v]
Err(e) == [ok |-> FALSE, err |-> e]

(***************************************************************************)
(* interpolate_mergetool_filename_patterns                                 *)
(***************************************************************************)
Roles == {"base", "left", "right", "output"}

\* A path under the temporary directory: temp_dir.path().join("{role}{suffix}")
role_path(role, suffix) == <<"jj-resolve-/", role, suffix>>

\* str::strip_prefix: the rest of the argument when it starts with c
strip_prefix(arg, c) ==
    IF Len(arg) > 0 /\ arg[1] = c THEN Some(Tail(arg)) ELSE None

\* HashMap::get on the paths map, whose keys are the role names
paths_get(ps, p) ==
    IF \E r \in DOMAIN ps : p = <<r>>
    THEN Some(ps[CHOOSE r \in DOMAIN ps : p = <<r>>])
    ELSE None

\* A plausible slip: the sigil is looked for at the end of the argument
\* instead of requiring the whole argument to be the sigil.
interpolate_suffix_match(margs, ps) ==
    [i \in 1..Len(margs) |->
        LET arg == margs[i]
            n == Len(arg)
        IN  IF n >= 2 /\ arg[n - 1] = "$" /\ paths_get(ps, <<arg[n]>>) # None
            THEN paths_get(ps, <<arg[n]>>)[1]
            ELSE arg]

interpolate_mergetool_filename_patterns(margs, ps) ==
    [i \in 1..Len(margs) |->
        LET arg == margs[i]
            stripped == strip_prefix(arg, "$")
            found == IF stripped = None THEN None ELSE paths_get(ps, stripped[1])
        IN  IF found = None THEN arg ELSE found[1]]

(***************************************************************************)
(* Tool configuration                                                      *)
(***************************************************************************)
\* Arguments used by the configurations below, as token sequences.
ArgBase == <<"$", "base">>
ArgLeft == <<"$", "left">>
ArgRight == <<"$", "right">>
ArgOutput == <<"$", "output">>
MeldMergeArgs == <<ArgLeft, ArgBase, ArgRight, <<"-o">>, ArgOutput, <<"--auto-merge">>>>
FooBarMergeArgs == <<ArgBase, ArgLeft, ArgRight, ArgOutput>>
FooBarEditArgs == <<<<"--edit">>, <<"args">>>>

\* MergeTool::with_program
with_program(program) ==
    [program |-> program,
     edit_args |-> <<>>,
     merge_args |-> <<>>,
     merge_tool_edits_conflict_markers |-> FALSE]

\* Deserialization of a table entry into MergeTool: every field is
\* #[serde(default)]; an entry of the wrong shape is an error.
try_deserialize(v) ==
    IF ~v.valid
    THEN Err([kind |-> "DeserializeError"])
    ELSE Ok([program |-> unwrap_or(v.program, ""),
             edit_args |-> unwrap_or(v.edit_args, <<>>),
             merge_args |-> unwrap_or(v.merge_args, <<>>),
             merge_tool_edits_conflict_markers |->
                 unwrap_or(v.merge_tool_edits_conflict_markers, FALSE)])

\* A plausible slip: the program of an entry that omits it is left empty.
get_tool_config_no_default(s, name) ==
    LET table == s.merge_tools
    IN  IF ~table.ok
        THEN Err([kind |-> "ConfigError", key |-> "merge-tools"])
        ELSE IF table.entries[name] # None
        THEN LET d == try_deserialize(table.entries[name][1])
             IN  IF ~d.ok
                 THEN Err([kind |-> "ConfigError", key |-> name])
                 ELSE Ok(d.val)
        ELSE Ok(with_program(name))

get_tool_config(s, name) ==
    LET table == s.merge_tools
    IN  IF ~table.ok
        THEN Err([kind |-> "ConfigError", key |-> "merge-tools"])
        ELSE IF table.entries[name] # None
        THEN LET d == try_deserialize(table.entries[name][1])
             IN  IF ~d.ok
                 THEN Err([kind |-> "ConfigError", key |-> name])
                 ELSE Ok(IF d.val.program = ""
                         THEN [d.val EXCEPT !.program = name]
                         ELSE d.val)
        ELSE Ok(with_program(name))

\* editor_name_from_settings: the result and the number of hint lines
\* written. hint_ok says whether the write to ui.hint() succeeds.
editor_name_from_settings(s, key, hint_ok) ==
    LET v == s.keys[key]
    IN  CASE v.state = "string" -> [res |-> Ok(v.value), hints |-> 0]
          [] v.state = "absent" ->
                IF hint_ok
                THEN [res |-> Ok("meld"), hints |-> 1]
                ELSE [res |-> Err([kind |-> "IoError"]), hints |-> 0]
          [] OTHER -> [res |-> Err([kind |-> "ConfigError", key |-> key]),
                       hints |-> 0]

get_diff_editor_from_settings(s, hint_ok) ==
    LET n == editor_name_from_settings(s, "ui.diff-editor", hint_ok)
    IN  IF ~n.res.ok THEN n
        ELSE [res |-> get_tool_config(s, n.res.val), hints |-> n.hints]

\* A plausible slip: the error names the program instead of the tool name.
get_merge_tool_names_program(s, hint_ok) ==
    LET n == editor_name_from_settings(s, "ui.merge-editor", hint_ok)
        tool == get_tool_config(s, n.res.val)
    IN  IF ~n.res.ok THEN n
        ELSE IF ~tool.ok THEN [res |-> tool, hints |-> n.hints]
        ELSE IF Len(tool.val.merge_args) = 0
        THEN [res |-> Err([kind |-> "MergeArgsNotConfigured",
                           tool_name |-> tool.val.program]),
              hints |-> n.hints]
        ELSE [res |-> tool, hints |-> n.hints]

get_merge_tool_from_settings(s, hint_ok) ==
    LET n == editor_name_from_settings(s, "ui.merge-editor", hint_ok)
        tool == get_tool_config(s, n.res.val)
    IN  IF ~n.res.ok THEN n
        ELSE IF ~tool.ok THEN [res |-> tool, hints |-> n.hints]
        ELSE IF Len(tool.val.merge_args) = 0
        THEN [res |-> Err([kind |-> "MergeArgsNotConfigured",
                           tool_name |-> n.res.val]),
              hints |-> n.hints]
        ELSE [res |-> tool, hints |-> n.hints]

(***************************************************************************)
(* Values of the two workflows                                             *)
(***************************************************************************)
RepoPaths == {"f", "g"}
repo_path == "f"        \* the path run_mergetool is asked to resolve

\* TreeValue; path_value gives None for an absent path
Absent == [kind |-> "absent", id |-> <<>>, executable |-> FALSE]
FileValue(id, x) == [kind |-> "file", id |-> id, executable |-> x]
ConflictValue(id) == [kind |-> "conflict", id |-> id, executable |-> FALSE]
conflict_id == <<"c0">>

\* Contents are sequences of tokens; the store is content addressed, so the
\* id of a file is its content and the id of a tree is the tree.
EmptyContent == <<>>
RemoveBlobs == {<<"O">>}
AddBlobs == {<<"A">>, <<"B">>}
Marker == "<<<<<<<"

RECURSIVE Flatten(_)
Flatten(seqs) == IF seqs = <<>> THEN <<>> ELSE Head(seqs) \o Flatten(Tail(seqs))

\* materialize_merge_result: the hunk as text with conflict markers
materialize_merge_result(hunk) ==
    <<Marker>>
    \o Flatten([i \in 1..Len(hunk.removes) |-> <<"-------">> \o hunk.removes[i]])
    \o Flatten([i \in 1..Len(hunk.adds) |-> <<"+++++++">> \o hunk.adds[i]])
    \o <<">>>>>>>">>

\* update_conflict_from_content: Some(id of the updated conflict) when the
\* text still holds conflict markers, None when it holds none
has_markers(bytes) == \E i \in 1..Len(bytes) : bytes[i] = Marker
update_conflict_from_content(id, bytes) ==
    IF has_markers(bytes) THEN Some(<<"conflict-of">> \o bytes) ELSE None

\* Vec::pop
pop(v) ==
    IF Len(v) = 0
    THEN [val |-> None, rest |-> v]
    ELSE [val |-> Some(v[Len(v)]), rest |-> SubSeq(v, 1, Len(v) - 1)]

\* The shape check of run_mergetool
too_complicated_off_by_one(hunk) == Len(hunk.removes) > 2 \/ Len(hunk.adds) > 3
too_complicated(hunk) == Len(hunk.removes) > 1 \/ Len(hunk.adds) > 2

\* The files map: base, right and left are popped in this order
role_files_left_first(hunk, init) ==
    LET l == pop(hunk.adds)
        r == pop(l.rest)
    IN  [base |-> unwrap_or(pop(hunk.removes).val, EmptyContent),
         right |-> unwrap_or(r.val, EmptyContent),
         left |-> unwrap_or(l.val, EmptyContent),
         output |-> init]
role_files(hunk, init) ==
    LET r == pop(hunk.adds)
        l == pop(r.rest)
    IN  [base |-> unwrap_or(pop(hunk.removes).val, EmptyContent),
         right |-> unwrap_or(r.val, EmptyContent),
         left |-> unwrap_or(l.val, EmptyContent),
         output |-> init]
\* what is left of the hunk after the three pops
popped(hunk) ==
    [removes |-> pop(hunk.removes).rest,
     adds |-> pop(pop(hunk.adds).rest).rest]

\* The seed of the output file
initial_output(ed, hunk) ==
    IF ed.merge_tool_edits_conflict_markers
    THEN materialize_merge_result(hunk)
    ELSE EmptyContent

\* "_{filename}" for the last component of the path
suffix_of(path) == IF path = "f" THEN "_f" ELSE "_g"

\* ExitStatus: the exit code, None when the process was ended by a signal
ExitStatuses == {[code |-> Some(0)], [code |-> Some(1)], [code |-> None]}
success_unless_code(es) == es.code # Some(1)
success(es) == es.code = Some(0)

\* The test on the output file after the tool has exited
empty_only(out, init) == out = EmptyContent
empty_or_unchanged(out, init) == out = EmptyContent \/ out = init

\* The value set at the path: the updated conflict, or else the new file
\* (Option::unwrap_or)
resolved_value_executable(reparsed, new_file_id) ==
    unwrap_or(reparsed, FileValue(new_file_id, TRUE))
resolved_value(reparsed, new_file_id) ==
    unwrap_or(reparsed, FileValue(new_file_id, FALSE))

\* TempDir: dropped when the owning function returns
temp_dir_kept(td) == td
drop_temp_dir(td) == IF td = "exists" THEN "removed" ELSE td

NoFile == None
NoDisk == [r \in Roles |-> NoFile]
NoTool == with_program("")
NoHunk == [removes |-> <<>>, adds |-> <<>>]
NoCmd == [program |-> "", args |-> <<>>]
NoStatus == [code |-> None]
NonFileConflict == [normal |-> FALSE, removes |-> <<>>, adds |-> <<>>]
DiffPaths == {"f", "g", "JJ-INSTRUCTIONS"}
instructions_path == "JJ-INSTRUCTIONS"
NoDir == [p \in DiffPaths |-> NoFile]
NoTree == [p \in DiffPaths |-> None]
NoTreeState == [tree |-> None, snapshots |-> 0]
NoExit == [left |-> NoDir, right |-> NoDir]
NoSettings == [keys |-> [k \in {"ui.diff-editor", "ui.merge-editor"} |->
                            [state |-> "absent", value |-> ""]],
               merge_tools |-> [ok |-> FALSE,
                                entries |-> [n \in {"meld", "my-merge", ""} |-> None]]]

\* The workflow variables while only a pure function is exercised
IdleWorkflow ==
    /\ op = "none"
    /\ pc = "done"
    /\ result = None
    /\ tree = [p \in RepoPaths |-> Absent]
    /\ conflict = NonFileConflict
    /\ content = NoHunk
    /\ editor = NoTool
    /\ initial_output_content = EmptyContent
    /\ files = [r \in Roles |-> EmptyContent]
    /\ temp_dir = "none"
    /\ disk = NoDisk
    /\ launches = 0
    /\ cmd = NoCmd
    /\ exit_status = NoStatus
    /\ at_exit = NoExit
    /\ output_file_contents = None
    /\ new_tree_value = None
    /\ store_files = {}
    /\ store_conflicts = {}
    /\ store_trees = {}
    /\ left_tree = NoTree
    /\ right_tree = NoTree
    /\ instructions = EmptyContent
    /\ left_dir = NoDir
    /\ right_dir = NoDir
    /\ add_instructions = FALSE
    /\ right_tree_state = NoTreeState

workflowvars == <<op, pc, result, tree, conflict, content, editor,
                  initial_output_content, files, temp_dir, disk, launches,
                  cmd, exit_status, at_exit, output_file_contents, new_tree_value,
                  store_files, store_conflicts, store_trees,
                  left_tree, right_tree, instructions, left_dir, right_dir,
                  add_instructions, right_tree_state>>

(***************************************************************************)
(* Inputs: the settings the resolution functions are applied to.           *)
(***************************************************************************)
EditorKeys == {"ui.diff-editor", "ui.merge-editor"}
Names == {"meld", "my-merge", ""}

KeyAbsent == [state |-> "absent", value |-> ""]
KeyInvalid == [state |-> "invalid", value |-> ""]
KeyString(n) == [state |-> "string", value |-> n]
KeyVals == {KeyAbsent, KeyInvalid} \cup {KeyString(n) : n \in Names}

InvalidEntry ==
    [valid |-> FALSE, program |-> None, edit_args |-> None,
     merge_args |-> None, merge_tool_edits_conflict_markers |-> None]
Entries ==
    {InvalidEntry} \cup
    [valid : {TRUE},
     program : {None, Some(""), Some("prog")},
     edit_args : {None, Some(FooBarEditArgs)},
     merge_args : {None, Some(<<>>), Some(FooBarMergeArgs)},
     merge_tool_edits_conflict_markers : {None, Some(FALSE), Some(TRUE)}]

\* The merge-tools table: get_table fails, or a table of at most
\* MaxEntries entries (name -> Some(entry)).
TableError == [ok |-> FALSE, entries |-> [n \in Names |-> None]]
Tables ==
    {TableError} \cup
    {[ok |-> TRUE, entries |-> [n \in Names |-> IF n \in D THEN Some(f[n]) ELSE None]] :
        <<D, f>> \in UNION {{<<D0, f0>> : f0 \in [D0 -> Entries]} :
                            D0 \in {D1 \in SUBSET Names : Cardinality(D1) <= MaxEntries}}}

\* One editor key is set freely, the other one is absent.
KeySettings ==
    {[k \in EditorKeys |-> IF k = k0 THEN v ELSE KeyAbsent] :
        <<k0, v>> \in EditorKeys \X KeyVals}

AllSettings == [keys : KeySettings, merge_tools : Tables]

NoCall == [fn |-> "none", name |-> "", key |-> "", hint_ok |-> TRUE]

(***************************************************************************)
(* SpecTools: the resolution functions applied to every settings value.    *)
(***************************************************************************)
InitTools ==
    /\ settings \in AllSettings
    /\ tcall = NoCall
    /\ resolved = None
    /\ hints = 0
    /\ merge_args = <<>>
    /\ paths = [r \in Roles |-> role_path(r, "")]
    /\ args = <<>>
    /\ IdleWorkflow

CallGetToolConfig ==
    /\ tcall.fn = "none"
    /\ \E name \in Names :
        /\ tcall' = [NoCall EXCEPT !.fn = "get_tool_config", !.name = name]
        /\ resolved' = get_tool_config(settings, name)
    /\ UNCHANGED <<settings, hints, argvars, workflowvars>>

CallEditorName ==
    /\ tcall.fn = "none"
    /\ \E key \in EditorKeys, hint_ok \in BOOLEAN :
        LET r == editor_name_from_settings(settings, key, hint_ok)
        IN  /\ tcall' = [NoCall EXCEPT !.fn = "editor_name_from_settings",
                                       !.key = key, !.hint_ok = hint_ok]
            /\ resolved' = r.res
            /\ hints' = hints + r.hints
    /\ UNCHANGED <<settings, argvars, workflowvars>>

CallGetDiffEditor ==
    /\ tcall.fn = "none"
    /\ \E hint_ok \in BOOLEAN :
        LET r == get_diff_editor_from_settings(settings, hint_ok)
        IN  /\ tcall' = [NoCall EXCEPT !.fn = "get_diff_editor_from_settings",
                                       !.key = "ui.diff-editor", !.hint_ok = hint_ok]
            /\ resolved' = r.res
            /\ hints' = hints + r.hints
    /\ UNCHANGED <<settings, argvars, workflowvars>>

CallGetMergeTool ==
    /\ tcall.fn = "none"
    /\ \E hint_ok \in BOOLEAN :
        LET r == get_merge_tool_from_settings(settings, hint_ok)
        IN  /\ tcall' = [NoCall EXCEPT !.fn = "get_merge_tool_from_settings",
                                       !.key = "ui.merge-editor", !.hint_ok = hint_ok]
            /\ resolved' = r.res
            /\ hints' = hints + r.hints
    /\ UNCHANGED <<settings, argvars, workflowvars>>

NextTools ==
    \/ CallGetToolConfig
    \/ CallEditorName
    \/ CallGetDiffEditor
    \/ CallGetMergeTool

SpecTools == InitTools /\ [][NextTools]_vars

(***************************************************************************)
(* SpecArgs: the interpolation applied to every bounded argument list.     *)
(***************************************************************************)
ArgPool ==
    {ArgBase, ArgLeft, ArgRight, ArgOutput,
     <<"$">>, <<"$", "unknown">>, <<"-o">>, <<>>,
     <<"--out=", "$", "output">>, <<"$", "$", "left">>, <<"$", "left", "x">>}
ArgLists == UNION {[1..n -> ArgPool] : n \in 0..MaxArgs}
Suffixes == {"", "_f"}

InitArgs ==
    /\ settings = NoSettings
    /\ tcall = NoCall
    /\ resolved = None
    /\ hints = 0
    /\ merge_args \in ArgLists
    /\ paths \in {[r \in Roles |-> role_path(r, sfx)] : sfx \in Suffixes}
    /\ args = None
    /\ IdleWorkflow

Interpolate ==
    /\ args = None
    /\ args' = Some(interpolate_mergetool_filename_patterns(merge_args, paths))
    /\ UNCHANGED <<settings, tcall, resolved, hints, merge_args, paths, workflowvars>>

NextArgs == Interpolate

SpecArgs == InitArgs /\ [][NextArgs]_vars

(***************************************************************************)
(* Inputs of the workflows                                                 *)
(***************************************************************************)
\* merge-tools.meld of the default configuration
MeldEntry ==
    [valid |-> TRUE, program |-> None, edit_args |-> None,
     merge_args |-> Some(MeldMergeArgs),
     merge_tool_edits_conflict_markers |-> None]
\* a tool that edits conflict markers
MarkerToolEntry ==
    [valid |-> TRUE, program |-> Some("prog"), edit_args |-> Some(FooBarEditArgs),
     merge_args |-> Some(FooBarMergeArgs),
     merge_tool_edits_conflict_markers |-> Some(TRUE)]
DefaultTable ==
    [ok |-> TRUE,
     entries |-> [n \in Names |-> IF n = "meld" THEN Some(MeldEntry) ELSE None]]
MarkerToolTable ==
    [ok |-> TRUE,
     entries |-> [n \in Names |-> CASE n = "meld" -> Some(MeldEntry)
                                    [] n = "my-merge" -> Some(MarkerToolEntry)
                                    [] OTHER -> None]]
SettingsFor(key, kv, table) ==
    [keys |-> [k \in EditorKeys |-> IF k = key THEN kv ELSE KeyAbsent],
     merge_tools |-> table]
WorkflowSettings(key) ==
    {SettingsFor(key, KeyAbsent, DefaultTable),
     SettingsFor(key, KeyString("my-merge"), DefaultTable),
     SettingsFor(key, KeyString("my-merge"), MarkerToolTable),
     SettingsFor(key, KeyInvalid, DefaultTable),
     SettingsFor(key, KeyAbsent, TableError)}

SeqsUpTo(S, n) == UNION {[1..k -> S] : k \in 0..n}
Hunks ==
    [normal : {TRUE},
     removes : SeqsUpTo(RemoveBlobs, MaxRemoves),
     adds : SeqsUpTo(AddBlobs, MaxAdds)]
\* the value at repo_path and the conflict object behind it
MergeInputs ==
    {<<Absent, NonFileConflict>>, <<FileValue(<<"A">>, FALSE), NonFileConflict>>,
     <<ConflictValue(conflict_id), NonFileConflict>>}
    \cup {<<ConflictValue(conflict_id), h>> : h \in Hunks}

(***************************************************************************)
(* Returning from the operation: the result is set and temp_dir, when it   *)
(* was created, is dropped with everything under it. d is the state of the *)
(* role files when the function returns.                                   *)
(***************************************************************************)
Return(r, d, l, rt) ==
    /\ result' = Some(r)
    /\ pc' = "done"
    /\ temp_dir' = drop_temp_dir(temp_dir)
    /\ disk' = IF drop_temp_dir(temp_dir) = "exists" THEN d ELSE NoDisk
    /\ left_dir' = IF drop_temp_dir(temp_dir) = "exists" THEN l ELSE NoDir
    /\ right_dir' = IF drop_temp_dir(temp_dir) = "exists" THEN rt ELSE NoDir

Finish(r, d) == Return(r, d, left_dir, right_dir)

Continue(next) ==
    /\ pc' = next
    /\ UNCHANGED <<result, temp_dir, disk, left_dir, right_dir>>

(***************************************************************************)
(* run_mergetool                                                           *)
(***************************************************************************)
\* tree.path_value(repo_path)
M_Locate ==
    /\ op = "run_mergetool" /\ pc = "locate"
    /\ \/ tree[repo_path].kind = "conflict" /\ Continue("read_conflict")
       \/ /\ tree[repo_path].kind = "file"
          /\ Finish(Err([kind |-> "NotAConflictError", path |-> repo_path]), disk)
       \/ /\ tree[repo_path].kind = "absent"
          /\ Finish(Err([kind |-> "PathNotFoundError", path |-> repo_path]), disk)
    /\ UNCHANGED <<hints, toolvars, argvars, inputvars, diffvars,
                   mergevars, procvars, storevars>>

\* read_conflict and extract_file_conflict_as_single_hunk
M_ReadConflict ==
    /\ op = "run_mergetool" /\ pc = "read_conflict"
    /\ \/ /\ Finish(Err([kind |-> "BackendError"]), disk)
          /\ UNCHANGED content
       \/ /\ conflict.normal
          /\ content' = [removes |-> conflict.removes, adds |-> conflict.adds]
          /\ Continue("validate")
       \/ /\ ~conflict.normal
          /\ Finish(Err([kind |-> "NotNormalFilesError", path |-> repo_path]), disk)
          /\ UNCHANGED content
    /\ UNCHANGED <<hints, toolvars, argvars, inputvars, diffvars,
                   editor, initial_output_content, files,
                   output_file_contents, new_tree_value, procvars, storevars>>

\* M_ValidateShape with the tool resolved before the shape is looked at
M_ValidateShape_after_tool ==
    /\ op = "run_mergetool" /\ pc = "validate"
    /\ \/ /\ ~get_merge_tool_from_settings(settings, TRUE).res.ok
          /\ Finish(Err(get_merge_tool_from_settings(settings, TRUE).res.err), disk)
       \/ /\ get_merge_tool_from_settings(settings, TRUE).res.ok
          /\ too_complicated(content)
          /\ Finish(Err([kind |-> "ConflictTooComplicatedError",
                         path |-> repo_path,
                         removes |-> Len(content.removes),
                         adds |-> Len(content.adds)]), disk)
       \/ /\ ~too_complicated(content)
          /\ Continue("resolve_tool")
    /\ UNCHANGED <<hints, toolvars, argvars, inputvars, diffvars,
                   mergevars, procvars, storevars>>

\* at most 1 remove and 2 adds
M_ValidateShape ==
    /\ op = "run_mergetool" /\ pc = "validate"
    /\ \/ /\ too_complicated(content)
          /\ Finish(Err([kind |-> "ConflictTooComplicatedError",
                         path |-> repo_path,
                         removes |-> Len(content.removes),
                         adds |-> Len(content.adds)]), disk)
       \/ /\ ~too_complicated(content)
          /\ Continue("resolve_tool")
    /\ UNCHANGED <<hints, toolvars, argvars, inputvars, diffvars,
                   mergevars, procvars, storevars>>

\* get_merge_tool_from_settings(ui, settings)?
M_ResolveTool ==
    /\ op = "run_mergetool" /\ pc = "resolve_tool"
    /\ \E hint_ok \in BOOLEAN :
        LET r == get_merge_tool_from_settings(settings, hint_ok)
        IN  /\ hints' = hints + r.hints
            /\ IF r.res.ok
               THEN editor' = r.res.val /\ Continue("prepare")
               ELSE UNCHANGED editor /\ Finish(Err(r.res.err), disk)
    /\ UNCHANGED <<toolvars, argvars, inputvars, diffvars, content,
                   initial_output_content, files, output_file_contents,
                   new_tree_value, procvars, storevars>>

\* initial_output_content and the files map
M_PrepareFiles ==
    /\ op = "run_mergetool" /\ pc = "prepare"
    /\ initial_output_content' = initial_output(editor, content)
    /\ files' = role_files(content, initial_output(editor, content))
    /\ content' = popped(content)
    /\ Continue("tempdir")
    /\ UNCHANGED <<hints, toolvars, argvars, inputvars, diffvars,
                   editor, output_file_contents, new_tree_value, procvars,
                   storevars>>

\* tempfile::Builder::new().prefix("jj-resolve-").tempdir()
M_CreateTempDir ==
    /\ op = "run_mergetool" /\ pc = "tempdir"
    /\ \/ /\ temp_dir' = "exists"
          /\ pc' = "write_files"
          /\ UNCHANGED <<result, disk, left_dir, right_dir>>
       \/ Finish(Err([kind |-> "SetUpDirError"]), disk)
    /\ UNCHANGED <<hints, toolvars, argvars, inputvars, diffvars,
                   mergevars, procvars, storevars>>

RoleFile(bytes, ro) == Some([content |-> bytes, readonly |-> ro])

\* every role file is written, and all but output are made read-only; a
\* failed write or permission change ends the operation with only some of the
\* files written
M_WriteRoleFiles ==
    /\ op = "run_mergetool" /\ pc = "write_files"
    /\ \/ /\ disk' = [r \in Roles |-> RoleFile(files[r], r # "output")]
          /\ pc' = "invoke"
          /\ UNCHANGED <<result, temp_dir, left_dir, right_dir>>
       \/ \E written \in (SUBSET Roles) \ {Roles} :
            Finish(Err([kind |-> "SetUpDirError"]),
                   [r \in Roles |-> IF r \in written
                                    THEN RoleFile(files[r], r # "output")
                                    ELSE NoFile])
    /\ UNCHANGED <<hints, toolvars, argvars, inputvars, diffvars,
                   mergevars, procvars, storevars>>

\* why Command::status() can fail to start the process
SpawnErrors == {"NotFound", "PermissionDenied"}

\* a process that could not be started reported like one that was killed
failed_to_execute_as_abort(program, e) ==
    Err([kind |-> "ToolAborted", exit_status |-> [code |-> None]])

\* map_err(|e| ExternalToolError::FailedToExecute { tool_binary, source: e })
failed_to_execute(program, e) ==
    Err([kind |-> "FailedToExecute", tool_binary |-> program, source |-> e])

\* What the merge tool may leave in the output file
ToolOutputs ==
    {disk["output"][1].content, EmptyContent,
     disk["left"][1].content \o <<"x">>, <<"R">>,
     <<Marker, "R", ">>>>>>>">>}

\* Command::new(program).args(args).status(): the process cannot be started,
\* or it runs to its end, leaving an exit status and an output file
M_Invoke ==
    /\ op = "run_mergetool" /\ pc = "invoke"
    /\ cmd' = [program |-> editor.program,
               args |-> interpolate_mergetool_filename_patterns(
                            editor.merge_args,
                            [r \in Roles |-> role_path(r, suffix_of(repo_path))])]
    /\ \/ /\ \E e \in SpawnErrors :
                Finish(failed_to_execute(editor.program, e), disk)
          /\ UNCHANGED <<launches, exit_status, at_exit>>
       \/ \E es \in ExitStatuses, out \in ToolOutputs :
            /\ launches' = launches + 1
            /\ exit_status' = es
            /\ disk' = [disk EXCEPT !["output"] = RoleFile(out, FALSE)]
            /\ pc' = "check_exit"
            /\ UNCHANGED <<result, temp_dir, left_dir, right_dir, at_exit>>
    /\ UNCHANGED <<hints, toolvars, argvars, inputvars, diffvars,
                   mergevars, storevars>>

\* M_CheckExit starting the tool a second time after a first failed run
M_CheckExit_retry ==
    /\ op = "run_mergetool" /\ pc = "check_exit"
    /\ \/ /\ ~success(exit_status) /\ launches # 1
          /\ Finish(Err([kind |-> "ToolAborted", exit_status |-> exit_status]), disk)
       \/ /\ ~success(exit_status) /\ launches = 1
          /\ Continue("invoke")
       \/ /\ success(exit_status)
          /\ Continue("read_output")
    /\ UNCHANGED <<hints, toolvars, argvars, inputvars, diffvars,
                   mergevars, procvars, storevars>>

\* if !exit_status.success()
M_CheckExit ==
    /\ op = "run_mergetool" /\ pc = "check_exit"
    /\ \/ /\ ~success(exit_status)
          /\ Finish(Err([kind |-> "ToolAborted", exit_status |-> exit_status]), disk)
       \/ /\ success(exit_status)
          /\ Continue("read_output")
    /\ UNCHANGED <<hints, toolvars, argvars, inputvars, diffvars,
                   mergevars, procvars, storevars>>

\* std::fs::read of the output file and the empty-or-unchanged test
M_ReadOutput ==
    /\ op = "run_mergetool" /\ pc = "read_output"
    /\ \/ /\ Finish(Err([kind |-> "IoError"]), disk)
          /\ UNCHANGED output_file_contents
       \/ LET out == disk["output"][1].content
          IN  /\ output_file_contents' = Some(out)
              /\ IF empty_or_unchanged(out, initial_output_content)
                 THEN Finish(Err([kind |-> "EmptyOrUnchanged"]), disk)
                 ELSE Continue("reparse")
    /\ UNCHANGED <<hints, toolvars, argvars, inputvars, diffvars,
                   content, editor, initial_output_content, files,
                   new_tree_value, procvars, storevars>>

\* M_Reparse with the output reparsed whatever the tool's flag says
M_Reparse_always ==
    /\ op = "run_mergetool" /\ pc = "reparse"
    /\ \/ /\ Finish(Err([kind |-> "BackendError"]), disk)
          /\ UNCHANGED <<new_tree_value, store_conflicts>>
       \/ /\ LET n == update_conflict_from_content(conflict_id, output_file_contents[1])
             IN  /\ new_tree_value' = IF n = None THEN None
                                      ELSE Some(ConflictValue(n[1]))
                 /\ store_conflicts' = IF n = None THEN store_conflicts
                                       ELSE store_conflicts \cup {n[1]}
          /\ Continue("write_file")
    /\ UNCHANGED <<hints, toolvars, argvars, inputvars, diffvars,
                   content, editor, initial_output_content, files,
                   output_file_contents, procvars, store_files, store_trees>>

\* update_conflict_from_content, only for a tool that edits conflict markers
M_Reparse ==
    /\ op = "run_mergetool" /\ pc = "reparse"
    /\ \/ /\ ~editor.merge_tool_edits_conflict_markers
          /\ Continue("write_file")
          /\ UNCHANGED <<new_tree_value, store_conflicts>>
       \/ /\ editor.merge_tool_edits_conflict_markers
          /\ Finish(Err([kind |-> "BackendError"]), disk)
          /\ UNCHANGED <<new_tree_value, store_conflicts>>
       \/ /\ editor.merge_tool_edits_conflict_markers
          /\ LET n == update_conflict_from_content(conflict_id, output_file_contents[1])
             IN  /\ new_tree_value' = IF n = None THEN None
                                      ELSE Some(ConflictValue(n[1]))
                 /\ store_conflicts' = IF n = None THEN store_conflicts
                                       ELSE store_conflicts \cup {n[1]}
          /\ Continue("write_file")
    /\ UNCHANGED <<hints, toolvars, argvars, inputvars, diffvars,
                   content, editor, initial_output_content, files,
                   output_file_contents, procvars, store_files, store_trees>>

\* new_tree_value.unwrap_or({ write_file(File::open(output)?)? ... }): the
\* argument of unwrap_or is evaluated whatever new_tree_value holds
M_WriteFile ==
    /\ op = "run_mergetool" /\ pc = "write_file"
    /\ \/ /\ Finish(Err([kind |-> "IoError"]), disk)
          /\ UNCHANGED <<new_tree_value, store_files>>
       \/ /\ Finish(Err([kind |-> "BackendError"]), disk)
          /\ UNCHANGED <<new_tree_value, store_files>>
       \/ LET new_file_id == disk["output"][1].content
          IN  /\ store_files' = store_files \cup {new_file_id}
              /\ new_tree_value' = Some(resolved_value(new_tree_value, new_file_id))
              /\ Continue("write_tree")
    /\ UNCHANGED <<hints, toolvars, argvars, inputvars, diffvars,
                   content, editor, initial_output_content, files,
                   output_file_contents, procvars, store_conflicts, store_trees>>

\* tree_builder.set on a builder that starts from an empty tree
tree_builder_set_on_empty(t, p, v) == [q \in DOMAIN t |-> IF q = p THEN v ELSE Absent]

\* TreeBuilder::new(store, tree.id()) then set(p, v): the entries of the
\* base tree with the one at p overridden
tree_builder_set(t, p, v) == [t EXCEPT ![p] = v]

\* tree_builder.set(repo_path, new_tree_value); Ok(tree_builder.write_tree())
M_WriteTree ==
    /\ op = "run_mergetool" /\ pc = "write_tree"
    /\ LET new_tree == tree_builder_set(tree, repo_path, new_tree_value[1])
       IN  /\ store_trees' = store_trees \cup {new_tree}
           /\ Finish(Ok(new_tree), disk)
    /\ UNCHANGED <<hints, toolvars, argvars, inputvars, diffvars,
                   mergevars, procvars, store_files, store_conflicts>>

InitMerge ==
    /\ op = "run_mergetool"
    /\ pc = "locate"
    /\ settings \in WorkflowSettings("ui.merge-editor")
    /\ \E in \in MergeInputs :
        /\ tree = [p \in RepoPaths |-> IF p = repo_path THEN in[1]
                                       ELSE FileValue(<<"G">>, FALSE)]
        /\ conflict = in[2]
    /\ result = None
    /\ content = NoHunk
    /\ editor = NoTool
    /\ initial_output_content = EmptyContent
    /\ files = [r \in Roles |-> EmptyContent]
    /\ temp_dir = "none"
    /\ disk = NoDisk
    /\ launches = 0
    /\ cmd = NoCmd
    /\ exit_status = NoStatus
    /\ at_exit = NoExit
    /\ output_file_contents = None
    /\ new_tree_value = None
    /\ store_files = {}
    /\ store_conflicts = {}
    /\ store_trees = {}
    /\ left_tree = NoTree
    /\ right_tree = NoTree
    /\ instructions = EmptyContent
    /\ left_dir = NoDir
    /\ right_dir = NoDir
    /\ add_instructions = FALSE
    /\ right_tree_state = NoTreeState

(***************************************************************************)
(* edit_diff                                                               *)
(***************************************************************************)
\* left_tree.diff(right_tree, &EverythingMatcher): the paths whose entry differs
changed_files == {p \in DiffPaths : left_tree[p] # right_tree[p]}

\* TreeState::check_out with the sparse patterns: the files of the tree at
\* the given paths, writable
checked_out(t, sparse) ==
    [p \in DiffPaths |-> IF p \in sparse /\ t[p] # None
                         THEN RoleFile(t[p][1], FALSE) ELSE NoFile]

\* set_readonly_recursively that stops at the directory it is handed
set_readonly_not_recursive(dir) == dir

\* set_readonly_recursively: every file read-only, directories unchanged
set_readonly_recursively(dir) ==
    [p \in DiffPaths |-> IF dir[p] = NoFile THEN NoFile
                         ELSE RoleFile(dir[p][1].content, TRUE)]

\* TreeState::snapshot: the files found in the directory, and outside the
\* sparse patterns the entries of the tree that was checked out
snapshot(t, sparse, dir) ==
    [p \in DiffPaths |-> IF dir[p] # NoFile THEN Some(dir[p][1].content)
                         ELSE IF p \in sparse THEN None
                         ELSE t[p]]

\* What the diff editor may do to a directory: each file is kept, removed
\* or (re)written
ToolEdits(dir, ps) ==
    {e \in [DiffPaths -> {NoFile, RoleFile(<<"E">>, FALSE)} \cup {dir[p] : p \in DiffPaths}] :
        \A p \in DiffPaths :
            /\ e[p] \in {dir[p], NoFile, RoleFile(<<"E">>, FALSE)}
            /\ p \notin ps => e[p] = dir[p]}

D_CreateTempDir ==
    /\ op = "edit_diff" /\ pc = "d_tempdir"
    /\ \/ /\ temp_dir' = "exists"
          /\ pc' = "d_checkout_left"
          /\ UNCHANGED <<result, disk, left_dir, right_dir>>
       \/ Finish(Err([kind |-> "SetUpDirError"]), disk)
    /\ UNCHANGED <<hints, toolvars, argvars, inputvars, diffvars,
                   mergevars, procvars, storevars>>

\* check_out(store, left_wc_dir, left_state_dir, left_tree, changed_files)?
D_CheckoutLeft ==
    /\ op = "edit_diff" /\ pc = "d_checkout_left"
    /\ \/ Finish(Err([kind |-> "SetUpDirError"]), disk)
       \/ Finish(Err([kind |-> "CheckoutError"]), disk)
       \/ /\ left_dir' = checked_out(left_tree, changed_files)
          /\ pc' = "d_readonly_left"
          /\ UNCHANGED <<result, temp_dir, disk, right_dir>>
    /\ UNCHANGED <<hints, toolvars, argvars, inputvars, diffvars,
                   mergevars, procvars, storevars>>

\* set_readonly_recursively(&left_wc_dir)
D_ReadonlyLeft ==
    /\ op = "edit_diff" /\ pc = "d_readonly_left"
    /\ \/ Finish(Err([kind |-> "SetUpDirError"]), disk)
       \/ /\ left_dir' = set_readonly_recursively(left_dir)
          /\ pc' = "d_checkout_right"
          /\ UNCHANGED <<result, temp_dir, disk, right_dir>>
    /\ UNCHANGED <<hints, toolvars, argvars, inputvars, diffvars,
                   mergevars, procvars, storevars>>

\* check_out(store, right_wc_dir, right_state_dir, right_tree, changed_files)?
D_CheckoutRight ==
    /\ op = "edit_diff" /\ pc = "d_checkout_right"
    /\ \/ /\ Finish(Err([kind |-> "SetUpDirError"]), disk)
          /\ UNCHANGED right_tree_state
       \/ /\ Finish(Err([kind |-> "CheckoutError"]), disk)
          /\ UNCHANGED right_tree_state
       \/ /\ right_dir' = checked_out(right_tree, changed_files)
          /\ right_tree_state' = [tree |-> Some(right_tree), snapshots |-> 0]
          /\ pc' = "d_instructions"
          /\ UNCHANGED <<result, temp_dir, disk, left_dir>>
    /\ UNCHANGED <<hints, toolvars, argvars, inputvars, add_instructions,
                   mergevars, procvars, storevars>>

\* the instructions written whenever there are any
instructions_needed_if_any(instr, dir) == instr # EmptyContent

\* !instructions.is_empty() && !instructions_path.exists()
instructions_needed(instr, dir) ==
    instr # EmptyContent /\ dir[instructions_path] = NoFile

\* the JJ-INSTRUCTIONS file, unless a file of that name was checked out
D_Instructions ==
    /\ op = "edit_diff" /\ pc = "d_instructions"
    /\ add_instructions' = instructions_needed(instructions, right_dir)
    /\ \/ /\ ~add_instructions'
          /\ Continue("d_resolve_tool")
       \/ /\ add_instructions'
          /\ right_dir' = [right_dir EXCEPT
                             ![instructions_path] = RoleFile(instructions, FALSE)]
          /\ pc' = "d_resolve_tool"
          /\ UNCHANGED <<result, temp_dir, disk, left_dir>>
       \/ /\ add_instructions'
          /\ \E partial \in {NoFile, RoleFile(EmptyContent, FALSE)} :
                Return(Err([kind |-> "SetUpDirError"]), disk, left_dir,
                       [right_dir EXCEPT ![instructions_path] = partial])
    /\ UNCHANGED <<hints, toolvars, argvars, inputvars, right_tree_state,
                   mergevars, procvars, storevars>>

\* D_ResolveTool falling back to the default editor when the settings are bad
D_ResolveTool_fallback ==
    /\ op = "edit_diff" /\ pc = "d_resolve_tool"
    /\ \E hint_ok \in BOOLEAN :
        LET r == get_diff_editor_from_settings(settings, hint_ok)
        IN  /\ hints' = hints + r.hints
            /\ editor' = IF r.res.ok THEN r.res.val ELSE with_program("meld")
            /\ Continue("d_invoke")
    /\ UNCHANGED <<toolvars, argvars, inputvars, diffvars, content,
                   initial_output_content, files, output_file_contents,
                   new_tree_value, procvars, storevars>>

\* get_diff_editor_from_settings(ui, settings)?
D_ResolveTool ==
    /\ op = "edit_diff" /\ pc = "d_resolve_tool"
    /\ \E hint_ok \in BOOLEAN :
        LET r == get_diff_editor_from_settings(settings, hint_ok)
        IN  /\ hints' = hints + r.hints
            /\ IF r.res.ok
               THEN editor' = r.res.val /\ Continue("d_invoke")
               ELSE UNCHANGED editor /\ Finish(Err(r.res.err), disk)
    /\ UNCHANGED <<toolvars, argvars, inputvars, diffvars, content,
                   initial_output_content, files, output_file_contents,
                   new_tree_value, procvars, storevars>>

\* Command::new(program).args(edit_args).arg(left).arg(right).status()
D_Invoke ==
    /\ op = "edit_diff" /\ pc = "d_invoke"
    /\ cmd' = [program |-> editor.program,
               args |-> editor.edit_args \o <<<<"jj-diff-edit-/", "left">>,
                                               <<"jj-diff-edit-/", "right">>>>]
    /\ \/ /\ \E e \in SpawnErrors :
                Finish(failed_to_execute(editor.program, e), disk)
          /\ UNCHANGED <<launches, exit_status, at_exit>>
       \/ \E es \in ExitStatuses,
             l \in ToolEdits(left_dir, {"f"}),
             rt \in ToolEdits(right_dir, {"f", instructions_path}) :
            /\ launches' = launches + 1
            /\ exit_status' = es
            /\ at_exit' = [left |-> l, right |-> rt]
            /\ left_dir' = l
            /\ right_dir' = rt
            /\ pc' = "d_check_exit"
            /\ UNCHANGED <<result, temp_dir, disk>>
    /\ UNCHANGED <<hints, toolvars, argvars, inputvars, diffvars,
                   mergevars, storevars>>

\* D_CheckExit with the snapshot taken before the exit status is looked at
D_CheckExit_after_snapshot ==
    /\ op = "edit_diff" /\ pc = "d_check_exit"
    /\ \/ /\ ~success(exit_status)
          /\ right_tree_state' =
                [tree |-> Some(snapshot(right_tree, changed_files, right_dir)),
                 snapshots |-> right_tree_state.snapshots + 1]
          /\ store_trees' = store_trees \cup
                                {snapshot(right_tree, changed_files, right_dir)}
          /\ Finish(Err([kind |-> "ToolAborted", exit_status |-> exit_status]), disk)
       \/ /\ success(exit_status)
          /\ Continue("d_remove_instructions")
          /\ UNCHANGED <<right_tree_state, store_trees>>
    /\ UNCHANGED <<hints, toolvars, argvars, inputvars, add_instructions,
                   mergevars, procvars, store_files, store_conflicts>>

\* if !exit_status.success()
D_CheckExit ==
    /\ op = "edit_diff" /\ pc = "d_check_exit"
    /\ \/ /\ ~success(exit_status)
          /\ Finish(Err([kind |-> "ToolAborted", exit_status |-> exit_status]), disk)
       \/ /\ success(exit_status)
          /\ Continue("d_remove_instructions")
    /\ UNCHANGED <<hints, toolvars, argvars, inputvars, diffvars,
                   mergevars, procvars, storevars>>

\* if add_instructions { std::fs::remove_file(instructions_path).ok(); }
D_RemoveInstructions ==
    /\ op = "edit_diff" /\ pc = "d_remove_instructions"
    /\ \/ /\ ~add_instructions
          /\ Continue("d_snapshot")
       \/ /\ add_instructions
          /\ right_dir' = [right_dir EXCEPT ![instructions_path] = NoFile]
          /\ pc' = "d_snapshot"
          /\ UNCHANGED <<result, temp_dir, disk, left_dir>>
       \/ /\ add_instructions
          /\ Continue("d_snapshot")
    /\ UNCHANGED <<hints, toolvars, argvars, inputvars, diffvars,
                   mergevars, procvars, storevars>>

\* D_Snapshot snapshotting the left directory
D_Snapshot_of_left ==
    /\ op = "edit_diff" /\ pc = "d_snapshot"
    /\ \/ /\ Finish(Err([kind |-> "SnapshotError"]), disk)
          /\ UNCHANGED <<right_tree_state, store_trees>>
       \/ LET new_tree == snapshot(left_tree, changed_files, left_dir)
          IN  /\ right_tree_state' = [tree |-> Some(new_tree),
                                      snapshots |-> right_tree_state.snapshots + 1]
              /\ store_trees' = store_trees \cup {new_tree}
              /\ Finish(Ok(new_tree), disk)
    /\ UNCHANGED <<hints, toolvars, argvars, inputvars, add_instructions,
                   mergevars, procvars, store_files, store_conflicts>>

\* right_tree_state.snapshot(base_ignores)?; Ok(current_tree_id)
D_Snapshot ==
    /\ op = "edit_diff" /\ pc = "d_snapshot"
    /\ \/ /\ Finish(Err([kind |-> "SnapshotError"]), disk)
          /\ UNCHANGED <<right_tree_state, store_trees>>
       \/ LET new_tree == snapshot(right_tree, changed_files, right_dir)
          IN  /\ right_tree_state' = [tree |-> Some(new_tree),
                                      snapshots |-> right_tree_state.snapshots + 1]
              /\ store_trees' = store_trees \cup {new_tree}
              /\ Finish(Ok(new_tree), disk)
    /\ UNCHANGED <<hints, toolvars, argvars, inputvars, add_instructions,
                   mergevars, procvars, store_files, store_conflicts>>

\* The two trees: f differs or not, g is the same file in both, and the
\* right tree may hold a file named JJ-INSTRUCTIONS
DiffTrees ==
    {<<[p \in DiffPaths |-> CASE p = "f" -> lf [] p = "g" -> Some(<<"G">>) [] OTHER -> None],
       [p \in DiffPaths |-> CASE p = "f" -> rf [] p = "g" -> Some(<<"G">>) [] OTHER -> ri]>> :
        <<lf, rf, ri>> \in {None, Some(<<"A">>)} \X {None, Some(<<"A">>), Some(<<"B">>)}
                           \X {None, Some(<<"I">>)}}

InitDiff ==
    /\ op = "edit_diff"
    /\ pc = "d_tempdir"
    /\ settings \in WorkflowSettings("ui.diff-editor")
    /\ \E in \in DiffTrees : left_tree = in[1] /\ right_tree = in[2]
    /\ instructions \in {EmptyContent, <<"text">>}
    /\ tree = [p \in RepoPaths |-> Absent]
    /\ conflict = NonFileConflict
    /\ result = None
    /\ content = NoHunk
    /\ editor = NoTool
    /\ initial_output_content = EmptyContent
    /\ files = [r \in Roles |-> EmptyContent]
    /\ temp_dir = "none"
    /\ disk = NoDisk
    /\ launches = 0
    /\ cmd = NoCmd
    /\ exit_status = NoStatus
    /\ at_exit = NoExit
    /\ output_file_contents = None
    /\ new_tree_value = None
    /\ store_files = {}
    /\ store_conflicts = {}
    /\ store_trees = {}
    /\ left_dir = NoDir
    /\ right_dir = NoDir
    /\ add_instructions = FALSE
    /\ right_tree_state = NoTreeState

Init ==
    /\ tcall = NoCall
    /\ resolved = None
    /\ hints = 0
    /\ merge_args = <<>>
    /\ paths = [r \in Roles |-> role_path(r, "")]
    /\ args = None
    /\ (InitMerge \/ InitDiff)

Next ==
    \/ M_Locate
    \/ M_ReadConflict
    \/ M_ValidateShape
    \/ M_ResolveTool
    \/ M_PrepareFiles
    \/ M_CreateTempDir
    \/ M_WriteRoleFiles
    \/ M_Invoke
    \/ M_CheckExit
    \/ M_ReadOutput
    \/ M_Reparse
    \/ M_WriteFile
    \/ M_WriteTree
    \/ D_CreateTempDir
    \/ D_CheckoutLeft
    \/ D_ReadonlyLeft
    \/ D_CheckoutRight
    \/ D_Instructions
    \/ D_ResolveTool
    \/ D_Invoke
    \/ D_CheckExit
    \/ D_RemoveInstructions
    \/ D_Snapshot

Spec == Init /\ [][Next]_vars

(***************************************************************************)
(* Claims about the interpolation and the tool resolution.                 *)
(***************************************************************************)
IsSigil(arg) == \E r \in Roles : arg = <<"$", r>>

\* C6: the interpolated list has the length and order of merge_args; element
\* i is the path of role r when merge_args[i] is exactly "$r" for one of the
\* four roles, and merge_args[i] itself otherwise.
C6_InterpolateWholeArgumentOnly ==
    args # None =>
        /\ Len(args[1]) = Len(merge_args)
        /\ \A i \in 1..Len(merge_args) :
            /\ \A r \in Roles :
                merge_args[i] = <<"$", r>> => args[1][i] = paths[r]
            /\ ~IsSigil(merge_args[i]) => args[1][i] = merge_args[i]

\* A list with a sigil and an argument that only contains one was interpolated.
C6_Witness ==
    /\ merge_args = <<ArgLeft, <<"--out=", "$", "output">>>>
    /\ args = Some(<<paths["left"], <<"--out=", "$", "output">>>>)
    /\ paths["left"] # ArgLeft

\* C7: get_tool_config(name) is {program: name, no arguments, flag false}
\* when the table has no entry for name; with an entry its given fields are
\* kept, omitted lists and flag are empty and false, and an omitted or empty
\* program is the name. A successful result for a non-empty name has a
\* non-empty program.
C7_GetToolConfigDefaults ==
    tcall.fn = "get_tool_config" =>
        LET name == tcall.name
            t == settings.merge_tools
            e == t.entries[name]
        IN  /\ (t.ok /\ e = None) =>
                /\ resolved.ok
                /\ resolved.val = [program |-> name, edit_args |-> <<>>,
                                   merge_args |-> <<>>,
                                   merge_tool_edits_conflict_markers |-> FALSE]
            /\ (t.ok /\ e # None /\ e[1].valid) =>
                /\ resolved.ok
                /\ resolved.val.program =
                    (IF e[1].program \in {None, Some("")} THEN name ELSE e[1].program[1])
                /\ resolved.val.edit_args =
                    (IF e[1].edit_args = None THEN <<>> ELSE e[1].edit_args[1])
                /\ resolved.val.merge_args =
                    (IF e[1].merge_args = None THEN <<>> ELSE e[1].merge_args[1])
                /\ resolved.val.merge_tool_edits_conflict_markers =
                    (e[1].merge_tool_edits_conflict_markers = Some(TRUE))
            /\ (resolved.ok /\ name # "") => resolved.val.program # ""

\* An entry that omits the program was resolved for a non-empty name.
C7_Witness ==
    /\ tcall.fn = "get_tool_config"
    /\ tcall.name = "my-merge"
    /\ settings.merge_tools.ok
    /\ settings.merge_tools.entries["my-merge"] # None
    /\ settings.merge_tools.entries["my-merge"][1].valid
    /\ settings.merge_tools.entries["my-merge"][1].program = None
    /\ settings.merge_tools.entries["my-merge"][1].edit_args = Some(FooBarEditArgs)
    /\ resolved.ok
    /\ resolved.val.program = "my-merge"

\* C8: once the tool name and its configuration are resolved, the merge
\* editor fails with MergeArgsNotConfigured naming the tool name exactly when
\* the resolved merge_args is empty (no entry included) and succeeds
\* otherwise; the diff editor succeeds with empty edit_args and merge_args.
C8_MergeArgsRequiredForMergeOnly ==
    tcall.fn \in {"get_merge_tool_from_settings", "get_diff_editor_from_settings"} =>
        LET kv == settings.keys[tcall.key]
            nameKnown == kv.state = "string" \/ (kv.state = "absent" /\ tcall.hint_ok)
            name == IF kv.state = "string" THEN kv.value ELSE "meld"
            t == settings.merge_tools
            e == t.entries[name]
            toolOk == t.ok /\ (e = None \/ e[1].valid)
            margs == IF e = None \/ e[1].merge_args = None
                     THEN <<>> ELSE e[1].merge_args[1]
        IN  (nameKnown /\ toolOk) =>
                IF tcall.fn = "get_diff_editor_from_settings"
                THEN resolved.ok
                ELSE IF margs = <<>>
                THEN /\ ~resolved.ok
                     /\ resolved.err = [kind |-> "MergeArgsNotConfigured",
                                        tool_name |-> name]
                ELSE /\ resolved.ok
                     /\ resolved.val.merge_args = margs

\* "my-merge" without arguments but with a program of its own was refused as
\* a merge tool.
C8_Witness ==
    /\ tcall.fn = "get_merge_tool_from_settings"
    /\ settings.keys["ui.merge-editor"] = KeyString("my-merge")
    /\ settings.merge_tools.ok
    /\ settings.merge_tools.entries["my-merge"] # None
    /\ settings.merge_tools.entries["my-merge"][1].valid
    /\ settings.merge_tools.entries["my-merge"][1].program = Some("prog")
    /\ settings.merge_tools.entries["my-merge"][1].merge_args = None
    /\ ~resolved.ok
    /\ resolved.err.kind = "MergeArgsNotConfigured"
    /\ resolved.err.tool_name = "my-merge"

\* C9: with the editor key absent editor_name_from_settings returns
\* Ok("meld") and has written one hint line, whatever happens; a key with a
\* non-string value gives a configuration error.
C9_AbsentKeyAlwaysYieldsMeld ==
    tcall.fn = "editor_name_from_settings" =>
        LET kv == settings.keys[tcall.key]
        IN  /\ kv.state = "absent" =>
                /\ resolved.ok
                /\ resolved.val = "meld"
                /\ hints = 1
            /\ kv.state = "invalid" =>
                /\ ~resolved.ok
                /\ resolved.err.kind = "ConfigError"

(***************************************************************************)
(* Claims about run_mergetool and edit_diff.                               *)
(***************************************************************************)
Returned == pc = "done" /\ result # None
ReturnedErr(kind) == Returned /\ ~result[1].ok /\ result[1].err.kind = kind
NothingStored == store_files = {} /\ store_conflicts = {} /\ store_trees = {}
\* the hunk of the stored conflict, as extracted
StoredHunk == [removes |-> conflict.removes, adds |-> conflict.adds]
\* the tool was resolved and the files map was built from the hunk
Prepared == op = "run_mergetool" /\ editor # NoTool /\ pc # "prepare"
\* what the output file is meant to be seeded with
ExpectedSeed ==
    IF editor.merge_tool_edits_conflict_markers
    THEN materialize_merge_result(StoredHunk)
    ELSE EmptyContent

\* C1: a hunk with more than 1 remove or more than 2 adds, once extracted,
\* makes run_mergetool fail with ConflictTooComplicatedError carrying the
\* exact counts; the hunk is not truncated, no process is launched, no temp
\* directory is created and nothing is written to the store.
C1_TooComplicatedRejected ==
    (/\ op = "run_mergetool"
     /\ tree[repo_path].kind = "conflict"
     /\ conflict.normal
     /\ (Len(conflict.removes) > 1 \/ Len(conflict.adds) > 2)
     /\ pc \notin {"locate", "read_conflict"}
     /\ ~ReturnedErr("BackendError"))
    =>  /\ launches = 0
        /\ temp_dir = "none"
        /\ NothingStored
        /\ content = StoredHunk
        /\ pc \in {"validate", "done"}
        /\ pc = "done" =>
            /\ ReturnedErr("ConflictTooComplicatedError")
            /\ result[1].err.removes = Len(conflict.removes)
            /\ result[1].err.adds = Len(conflict.adds)

\* A hunk of one remove and three adds was rejected with its counts.
C1_Witness ==
    /\ ReturnedErr("ConflictTooComplicatedError")
    /\ Len(conflict.removes) = 1
    /\ Len(conflict.adds) = 3
    /\ result[1].err.adds = 3
    /\ result[1].err.removes = 1

\* C2: in both operations, when the process was launched and its exit status
\* is not success, the operation returns ToolAborted with that status; the
\* output file is not read back, no snapshot is taken and nothing is written
\* to the store.
C2_NonSuccessExitAborts ==
    (launches = 1 /\ exit_status.code # Some(0))
    =>  /\ pc \in {"check_exit", "d_check_exit", "done"}
        /\ output_file_contents = None
        /\ right_tree_state.snapshots = 0
        /\ NothingStored
        /\ pc = "done" =>
            /\ ReturnedErr("ToolAborted")
            /\ result[1].err.exit_status = exit_status

\* The merge tool was ended by a signal and the operation returned ToolAborted.
C2_Witness ==
    /\ op = "run_mergetool"
    /\ launches = 1
    /\ exit_status.code = None
    /\ ReturnedErr("ToolAborted")
    /\ result[1].err.exit_status.code = None

\* C3: in run_mergetool, when the output file read back after a successful
\* exit is empty or equal to its seed (the materialized conflict for a tool
\* that edits conflict markers, empty otherwise), the operation returns
\* EmptyOrUnchanged and nothing is written to the store.
C3_EmptyOrUnchangedRejected ==
    (/\ op = "run_mergetool"
     /\ output_file_contents # None
     /\ output_file_contents[1] \in {EmptyContent, ExpectedSeed})
    =>  /\ ReturnedErr("EmptyOrUnchanged")
        /\ NothingStored

\* A marker-editing tool left the materialized conflict as it was.
C3_Witness ==
    /\ op = "run_mergetool"
    /\ editor.merge_tool_edits_conflict_markers
    /\ exit_status.code = Some(0)
    /\ output_file_contents = Some(materialize_merge_result(StoredHunk))
    /\ ReturnedErr("EmptyOrUnchanged")

\* the tool exited with success and left a non-empty output unlike the seed,
\* which was read back, and the operation has returned
AcceptedOutput ==
    /\ op = "run_mergetool"
    /\ pc = "done"
    /\ launches = 1
    /\ exit_status.code = Some(0)
    /\ output_file_contents # None
    /\ output_file_contents[1] # EmptyContent
    /\ output_file_contents[1] # ExpectedSeed

\* C4 as stated (failures of the store and of the file system set aside):
\* for every tool configuration an accepted output makes run_mergetool
\* return a tree whose value at the path is a non-executable file holding
\* exactly the output.
C4_AcceptedOutputAlwaysFile ==
    (AcceptedOutput /\ ~ReturnedErr("IoError") /\ ~ReturnedErr("BackendError"))
    =>  /\ result[1].ok
        /\ result[1].val[repo_path] = FileValue(output_file_contents[1], FALSE)

\* C4 amended: an accepted output makes run_mergetool succeed unless
\* reopening the output or a store operation fails; the value at the path is
\* a non-executable file holding exactly the output, except for a tool that
\* edits conflict markers whose output still holds markers, where it is the
\* updated conflict.
C4_AcceptedOutputFileUnlessReparsed ==
    AcceptedOutput
    =>  /\ result[1].ok \/ ReturnedErr("IoError") \/ ReturnedErr("BackendError")
        /\ result[1].ok =>
            LET out == output_file_contents[1]
                reparsed == update_conflict_from_content(conflict_id, out)
            IN  IF editor.merge_tool_edits_conflict_markers /\ reparsed # None
                THEN result[1].val[repo_path] = ConflictValue(reparsed[1])
                ELSE result[1].val[repo_path] = FileValue(out, FALSE)

\* The tool copied left and appended a byte: the path holds that file.
C4_Witness ==
    /\ AcceptedOutput
    /\ conflict.removes = <<<<"O">>>>
    /\ conflict.adds = <<<<"A">>, <<"B">>>>
    /\ output_file_contents = Some(<<"A", "x">>)
    /\ result[1].ok
    /\ result[1].val[repo_path] = FileValue(<<"A", "x">>, FALSE)

\* C5: for an accepted hunk the files map, and the role files written from
\* it, hold base = removes[0] or empty; left, right = A, B for adds [A, B];
\* right = A and left empty for adds [A]; both empty without adds; output =
\* the materialization of the whole hunk for a tool that edits conflict
\* markers and empty otherwise.
C5_RoleFilesFromHunk ==
    Prepared =>
        LET h == StoredHunk
            want == [base |-> IF Len(h.removes) = 0 THEN EmptyContent ELSE h.removes[1],
                     left |-> IF Len(h.adds) = 2 THEN h.adds[1] ELSE EmptyContent,
                     right |-> CASE Len(h.adds) = 2 -> h.adds[2]
                                 [] Len(h.adds) = 1 -> h.adds[1]
                                 [] OTHER -> EmptyContent,
                     output |-> ExpectedSeed]
        IN  /\ Len(h.removes) <= 1 /\ Len(h.adds) <= 2
            /\ files = want
            /\ pc = "invoke" => \A r \in Roles : disk[r][1].content = want[r]

\* The role files of a hunk with two different adds, for a tool that edits
\* conflict markers, are on disk when the tool is about to be invoked.
C5_Witness ==
    /\ op = "run_mergetool" /\ pc = "invoke"
    /\ editor.merge_tool_edits_conflict_markers
    /\ conflict.removes = <<<<"O">>>>
    /\ conflict.adds = <<<<"A">>, <<"B">>>>
    /\ disk["base"] = RoleFile(<<"O">>, TRUE)
    /\ disk["left"] = RoleFile(<<"A">>, TRUE)
    /\ disk["right"] = RoleFile(<<"B">>, TRUE)
    /\ disk["output"] =
        RoleFile(<<Marker, "-------", "O", "+++++++", "A", "+++++++", "B", ">>>>>>>">>, FALSE)

\* C10: once run_mergetool or edit_diff has returned, by whatever path, the
\* temporary directory it created and everything under it are gone.
C10_TempDirRemovedOnReturn ==
    pc = "done" =>
        /\ temp_dir # "exists"
        /\ disk = NoDisk
        /\ left_dir = NoDir
        /\ right_dir = NoDir

\* edit_diff returned an error after both trees were checked out under the
\* temporary directory, which is removed.
C10_Witness ==
    /\ op = "edit_diff"
    /\ ReturnedErr("ToolAborted")
    /\ right_tree_state.tree # None
    /\ temp_dir = "removed"
    /\ right_dir = NoDir

(***************************************************************************)
(* Claims about edit_diff and about the two operations together.           *)
(***************************************************************************)
DiffReturnedOk == op = "edit_diff" /\ result # None /\ result[1].ok

without_instructions(dir) == [dir EXCEPT ![instructions_path] = NoFile]

\* C11 (as stated): the tree edit_diff returns is the snapshot of right_dir
\* exactly as the diff editor left it when it exited
C11_SnapshotOfRightDirAsToolLeftIt ==
    DiffReturnedOk =>
        result[1].val = snapshot(right_tree, changed_files, at_exit.right)

\* C11: when the diff editor exits zero and edit_diff returns a tree, one
\* snapshot was taken and the tree is the snapshot of right_dir as the editor
\* left it, or, when the orchestrator wrote the instructions file, of that
\* directory less the instructions file; a changed path the editor deleted
\* from right_dir is absent from the tree; left_dir is not its source
C11_SnapshotOfRightDir ==
    DiffReturnedOk =>
        /\ success(exit_status)
        /\ right_tree_state.snapshots = 1
        /\ right_tree_state.tree = Some(result[1].val)
        /\ \/ result[1].val = snapshot(right_tree, changed_files, at_exit.right)
           \/ /\ add_instructions
              /\ result[1].val = snapshot(right_tree, changed_files,
                                          without_instructions(at_exit.right))
        /\ \A p \in changed_files :
              at_exit.right[p] = NoFile => result[1].val[p] = None

\* the editor rewrote f under left_dir and deleted f from right_dir
C11_Witness ==
    /\ DiffReturnedOk
    /\ "f" \in changed_files
    /\ right_tree["f"] # None
    /\ at_exit.right["f"] = NoFile
    /\ at_exit.left["f"] = RoleFile(<<"E">>, FALSE)
    /\ result[1].val["f"] = None

\* C12: a run of either operation that returns an error wrote no tree and
\* took no snapshot; a tree is written or snapshotted only by the step that
\* returns Ok, and it is the tree returned; the input trees never change
C12_NoTreeUnlessOk ==
    /\ [](/\ (Returned /\ ~result[1].ok) =>
                (store_trees = {} /\ right_tree_state.snapshots = 0)
          /\ (store_trees # {} \/ right_tree_state.snapshots # 0) =>
                (/\ Returned /\ result[1].ok
                 /\ store_trees = {result[1].val}
                 /\ right_tree_state.snapshots = IF op = "edit_diff" THEN 1 ELSE 0))
    /\ [][/\ tree' = tree
          /\ left_tree' = left_tree
          /\ right_tree' = right_tree]_vars

\* an error after the tool already ran and wrote its output or edited right_dir
C12_Witness ==
    /\ Returned /\ ~result[1].ok
    /\ launches = 1
    /\ result[1].err.kind \in {"ToolAborted", "EmptyOrUnchanged", "IoError",
                               "BackendError", "SnapshotError"}
    /\ store_trees = {}

MergeReturnedOk == op = "run_mergetool" /\ result # None /\ result[1].ok

\* C13: the tree run_mergetool returns has the paths of the input tree, the
\* new value at repo_path and, at every other path, the input tree's value
C13_OnlyRepoPathReplaced ==
    MergeReturnedOk =>
        /\ DOMAIN result[1].val = DOMAIN tree
        /\ result[1].val[repo_path] = new_tree_value[1]
        /\ \A q \in DOMAIN tree \ {repo_path} : result[1].val[q] = tree[q]

\* a successful run on a tree that holds a file at another path
C13_Witness ==
    /\ MergeReturnedOk
    /\ tree["g"] = FileValue(<<"G">>, FALSE)
    /\ result[1].val["g"] = FileValue(<<"G">>, FALSE)
    /\ tree[repo_path] = ConflictValue(conflict_id)
    /\ result[1].val[repo_path].kind = "file"

ShapeErrors == {"PathNotFoundError", "NotAConflictError", "NotNormalFilesError",
                "ConflictTooComplicatedError"}
ShapeValid ==
    /\ tree[repo_path].kind = "conflict"
    /\ conflict.normal
    /\ ~too_complicated(StoredHunk)

\* C14: run_mergetool locates, materializes and validates the conflict
\* before it resolves the tool, resolves the tool before it creates the
\* temporary directory and creates that before it starts the process; a path
\* that is absent, not a conflict, not of normal files or too complicated
\* yields that error whatever the settings are, and then no tool was
\* resolved, no temporary directory created and no process started
C14_ShapeChecksFirst ==
    op = "run_mergetool" =>
        /\ (editor # NoTool \/ hints # 0) => ShapeValid
        /\ temp_dir # "none" => editor # NoTool
        /\ (launches # 0 \/ cmd # NoCmd) => temp_dir # "none"
        /\ Returned =>
            /\ tree[repo_path].kind = "absent" => ReturnedErr("PathNotFoundError")
            /\ tree[repo_path].kind = "file" => ReturnedErr("NotAConflictError")
            /\ (tree[repo_path].kind = "conflict" /\ ~conflict.normal) =>
                  (ReturnedErr("NotNormalFilesError") \/ ReturnedErr("BackendError"))
            /\ (/\ tree[repo_path].kind = "conflict" /\ conflict.normal
                /\ too_complicated(StoredHunk)) =>
                  (\/ ReturnedErr("ConflictTooComplicatedError")
                   \/ ReturnedErr("BackendError"))
        /\ (\E k \in ShapeErrors : ReturnedErr(k)) =>
            /\ editor = NoTool /\ hints = 0
            /\ temp_dir = "none"
            /\ launches = 0 /\ cmd = NoCmd

\* a conflict that is too complicated, under settings whose tool resolution
\* would have failed
C14_Witness ==
    /\ op = "run_mergetool"
    /\ ~get_merge_tool_from_settings(settings, TRUE).res.ok
    /\ ReturnedErr("ConflictTooComplicatedError")
    /\ temp_dir = "none"

\* C15: once the output was accepted, the value set at repo_path is the
\* conflict of the id the reparse returned, which happens only for a tool
\* that edits conflict markers; when such a tool's reparse returned no id,
\* and for every other tool, whose output is never reparsed, the value is a
\* non-executable file holding the bytes read from the output file
C15_ValueAfterAcceptedOutput ==
    (op = "run_mergetool" /\ (pc = "write_tree" \/ MergeReturnedOk)) =>
        LET v == new_tree_value[1]
            out == output_file_contents[1]
        IN  /\ ~editor.merge_tool_edits_conflict_markers => store_conflicts = {}
            /\ IF store_conflicts # {}
               THEN /\ editor.merge_tool_edits_conflict_markers
                    /\ v.kind = "conflict"
                    /\ store_conflicts = {v.id}
               ELSE v = FileValue(out, FALSE)
            /\ MergeReturnedOk => result[1].val[repo_path] = v

\* a tool that does not edit conflict markers wrote markers to its output:
\* nothing was reparsed and the path holds the file
C15_Witness ==
    /\ MergeReturnedOk
    /\ ~editor.merge_tool_edits_conflict_markers
    /\ has_markers(output_file_contents[1])
    /\ store_conflicts = {}
    /\ result[1].val[repo_path] = FileValue(output_file_contents[1], FALSE)

\* what the tool resolution of the running operation yields from the settings
Resolution ==
    IF op = "run_mergetool"
    THEN get_merge_tool_from_settings(settings, TRUE).res
    ELSE get_diff_editor_from_settings(settings, TRUE).res
SetupErrors == {"ConfigError", "MergeArgsNotConfigured", "SetUpDirError"}
\* the errors of the steps that come before the tool is resolved
EarlierErrors ==
    IF op = "run_mergetool" THEN ShapeErrors \cup {"BackendError"}
    ELSE {"SetUpDirError", "CheckoutError"}

\* C16: in both operations, under settings whose tool resolution yields a
\* configuration error no process is ever started, and the operation returns
\* that error unless an earlier step or the hint already failed; an
\* operation that returns a configuration error or SetUpDirError has not
\* started the process nor built its command
C16_NoLaunchAfterSetupFailure ==
    /\ ~Resolution.ok =>
        /\ launches = 0 /\ exit_status = NoStatus
        /\ Returned =>
            /\ ~result[1].ok
            /\ \/ result[1].err.kind \in EarlierErrors \cup {"IoError"}
               \/ /\ result[1].err.kind = Resolution.err.kind
                  /\ result[1].err = Resolution.err
    /\ \A k \in SetupErrors :
        ReturnedErr(k) => (launches = 0 /\ cmd = NoCmd /\ exit_status = NoStatus)

\* edit_diff checked out both trees and then failed to resolve its tool
C16_Witness ==
    /\ op = "edit_diff"
    /\ ReturnedErr("ConfigError")
    /\ result[1].err = Resolution.err
    /\ right_tree_state.tree # None
    /\ temp_dir = "removed"
    /\ launches = 0

\* the inputs of the external tool are in place and protected
InputsProtected ==
    IF op = "run_mergetool"
    THEN \A r \in Roles :
            /\ disk[r] # NoFile
            /\ disk[r][1].content = files[r]
            /\ disk[r][1].readonly = (r # "output")
    ELSE \A p \in DiffPaths :
            /\ left_dir[p] # NoFile <=> (p \in changed_files /\ left_tree[p] # None)
            /\ left_dir[p] # NoFile =>
                  (left_dir[p][1].readonly /\ left_dir[p][1].content = left_tree[p][1])
            /\ right_dir[p] # NoFile => ~right_dir[p][1].readonly
            /\ (p \in changed_files /\ right_tree[p] # None) =>
                  right_dir[p] = RoleFile(right_tree[p][1], FALSE)

\* C17: when the command is built and the process started, run_mergetool has
\* written base, left and right read-only and output writable, and edit_diff
\* has checked out the changed files of the left tree read-only under
\* left_dir and left every file under right_dir writable; the process is
\* started from no other position
C17_InputsProtectedAtLaunch ==
    /\ [](pc \in {"invoke", "d_invoke"} => InputsProtected)
    /\ [][launches' # launches =>
            (pc \in {"invoke", "d_invoke"} /\ InputsProtected)]_vars

\* edit_diff about to start the editor on a file that both trees hold
C17_Witness ==
    /\ pc = "d_invoke"
    /\ left_dir["f"] # NoFile /\ left_dir["f"][1].readonly
    /\ right_dir["f"] # NoFile /\ ~right_dir["f"][1].readonly
    /\ right_dir[instructions_path] # NoFile

\* the file the checkout of right_tree left at the reserved name, if any
CheckedOutAtReservedName ==
    IF instructions_path \in changed_files /\ right_tree[instructions_path] # None
    THEN RoleFile(right_tree[instructions_path][1], FALSE)
    ELSE NoFile

\* C18: edit_diff writes the instructions file exactly when the instructions
\* are not empty and the checkout left no file at the reserved name, and a
\* file the checkout left there is kept as it is; outside the run of the
\* editor and the removal of the temporary directory, the file at the
\* reserved name changes only by the checkout, by that write and by the
\* removal of the file the orchestrator wrote; the removal step never ends
\* the operation
C18_InstructionsFileOnlyWhenFree ==
    /\ [](pc \in {"d_resolve_tool", "d_invoke"} =>
            /\ add_instructions <=>
                  (instructions # EmptyContent /\ CheckedOutAtReservedName = NoFile)
            /\ right_dir[instructions_path] =
                  IF add_instructions THEN RoleFile(instructions, FALSE)
                  ELSE CheckedOutAtReservedName)
    /\ [][(/\ op = "edit_diff"
           /\ pc \notin {"d_checkout_right", "d_invoke"}
           /\ pc' # "done"
           /\ right_dir'[instructions_path] # right_dir[instructions_path]) =>
              (/\ add_instructions'
               /\ CheckedOutAtReservedName = NoFile
               /\ \/ /\ pc = "d_instructions"
                     /\ right_dir'[instructions_path] = RoleFile(instructions, FALSE)
                  \/ /\ pc = "d_remove_instructions"
                     /\ right_dir'[instructions_path] = NoFile)]_vars
    /\ [][pc = "d_remove_instructions" => (pc' = "d_snapshot" /\ result' = None)]_vars

\* the orchestrator wrote the file, could not remove it, and edit_diff
\* returned a tree all the same
C18_Witness ==
    /\ DiffReturnedOk
    /\ add_instructions
    /\ right_tree[instructions_path] = None
    /\ at_exit.right[instructions_path] = RoleFile(instructions, FALSE)
    /\ result[1].val[instructions_path] = Some(instructions)

\* C19: in both operations a process that could not be started is reported
\* as FailedToExecute with the program of the resolved tool and the cause,
\* and then no process ran, no output was read, no snapshot taken and nothing
\* written to the store; ToolAborted is returned only after the process ran
\* and exited without success, with its exit status
C19_LaunchFailureIsFailedToExecute ==
    /\ ReturnedErr("FailedToExecute") =>
        /\ launches = 0 /\ exit_status = NoStatus /\ at_exit = NoExit
        /\ Resolution.ok
        /\ result[1].err.tool_binary = Resolution.val.program
        /\ result[1].err.tool_binary = cmd.program
        /\ result[1].err.source \in SpawnErrors
        /\ output_file_contents = None
        /\ right_tree_state.snapshots = 0
        /\ NothingStored
    /\ ReturnedErr("ToolAborted") =>
        /\ launches = 1
        /\ ~success(exit_status)
        /\ result[1].err.exit_status = exit_status
    /\ (Returned /\ cmd # NoCmd /\ launches = 0) => ReturnedErr("FailedToExecute")

\* the configured program of the merge tool could not be started
C19_Witness ==
    /\ op = "run_mergetool"
    /\ ReturnedErr("FailedToExecute")
    /\ settings.keys["ui.merge-editor"].value = "my-merge"
    /\ result[1].err.tool_binary = "prog"
    /\ result[1].err.source = "NotFound"
    /\ temp_dir = "removed"

\* C20: once the reparse of the output has returned an updated conflict id,
\* run_mergetool writes no file to the store and cannot fail any more: it
\* returns a tree whose value at repo_path is that conflict
C20_NoWriteFileForConflict ==
    (op = "run_mergetool" /\ store_conflicts # {}) =>
        /\ store_files = {}
        /\ Returned =>
            /\ result[1].ok
            /\ result[1].val[repo_path].kind = "conflict"

\* C21: whenever edit_diff wrote the instructions file itself and returns a
\* tree, the one snapshot was taken after the removal step and the tree has
\* no entry at the reserved name, whether or not the removal succeeded
C21_InstructionsNeverInTree ==
    /\ (op = "edit_diff" /\ right_tree_state.snapshots # 0) =>
            pc \notin {"d_check_exit", "d_remove_instructions"}
    /\ (DiffReturnedOk /\ add_instructions) =>
            /\ right_tree_state.snapshots = 1
            /\ result[1].val[instructions_path] = None

\* C22: in every run of either operation the process is started at most
\* once, and started before the output file is read or right_dir is
\* snapshotted; the output is read, a snapshot taken and a tree returned only
\* after the process was started exactly once and exited with success
C22_OneLaunchBeforeAnyTree ==
    /\ [](/\ launches \in {0, 1}
          /\ (\/ output_file_contents # None
              \/ right_tree_state.snapshots # 0
              \/ store_trees # {}
              \/ (result # None /\ result[1].ok)) =>
                (launches = 1 /\ success(exit_status)))
    /\ [][launches' # launches =>
            (/\ launches = 0 /\ launches' = 1
             /\ output_file_contents = None
             /\ right_tree_state.snapshots = 0
             /\ result = None)]_vars

\* edit_diff returned a tree after the one run of the editor exited with 0
C22_Witness ==
    /\ DiffReturnedOk
    /\ launches = 1
    /\ exit_status = [code |-> Some(0)]
    /\ right_tree_state.snapshots = 1
    /\ store_trees = {result[1].val}

=============================================================================
